---- MODULE Spec2Model ----
(***************************************************************************)
(* A model of server.js: the TTL cache, fetchFPL, loadData (team           *)
(* statistics), getCSProb and the two JSON routes, /api/bootstrap and      *)
(* /api/fixtures.                                                          *)
(*                                                                         *)
(* JavaScript values.  null is the integer Null; a JavaScript number that  *)
(* is not an integer (a rate) is a reduced fraction <<num, den>>.          *)
(***************************************************************************)
EXTENDS Integers, Sequences, FiniteSets, TLC

VARIABLES now, cache, stored, teamsById, teamStats, fixturesData, reqs,
          clientBootstrap, squad, bank, call

vars == <<now, cache, stored, teamsById, teamStats, fixturesData, reqs,
          clientBootstrap, squad, bank, call>>

\* The page's script state (lines 172-175: bootstrap, squad, bank), with call,
\* the record of the latest addPlayer or removePlayer call.
client == <<clientBootstrap, squad, bank, call>>

Null == -1

\* `x || 0` for a number or null, and ToNumber(x) in a relational comparison.
OrZero(x) == IF x = Null THEN 0 ELSE x

Min(a, b) == IF a < b THEN a ELSE b

RECURSIVE Gcd(_, _)
Gcd(a, b) == IF b = 0 THEN a ELSE Gcd(b, a % b)

\* The number num / den (den > 0), as a reduced fraction.
Rat(num, den) == LET g == Gcd(num, den) IN IF num = 0 THEN <<0, 1>> ELSE <<num \div g, den \div g>>

RatLess(p, q) == p[1] * q[2] < q[1] * p[2]

--------------------------------------------------------------------------
(* The cache: const cache = new Map(), entries {value, expiry}.            *)

CACHE_TTL == 300000

BOOTSTRAP == "/bootstrap-static/"
FIXTURES == "/fixtures/"
LOADED == "loaded"
Keys == {BOOTSTRAP, FIXTURES, LOADED}

NoItem == [present |-> FALSE]

\* getCache without the expiry test: an entry never expires.
GetCacheIgnoringExpiry(c, key, t) ==
  LET item == c[key] IN
  IF ~item.present THEN [some |-> FALSE] ELSE [some |-> TRUE, value |-> item.value]

\* getCache(key) at time t: [some |-> FALSE] for null, else the stored value.
GetCache(c, key, t) ==
  LET item == c[key] IN
  IF ~item.present \/ t > item.expiry
  THEN [some |-> FALSE]
  ELSE [some |-> TRUE, value |-> item.value]

\* setCache(key, value) at time t.
SetCache(c, key, value, t) ==
  [c EXCEPT ![key] = [present |-> TRUE, value |-> value, expiry |-> t + CACHE_TTL]]

--------------------------------------------------------------------------
(* loadData, lines 47-70: the statistics of one team.                      *)

Without(s, p) == SubSeq(s, 1, p - 1) \o SubSeq(s, p + 1, Len(s))

RECURSIVE SortDesc(_, _)
\* Array.prototype.sort with comparator key(b) - key(a), keys[i] the key of
\* s[i]: descending, and stable (the first of equal keys stays first).
SortDesc(s, keys) ==
  IF s = <<>> THEN <<>>
  ELSE LET m == CHOOSE k \in {keys[i] : i \in 1..Len(s)} :
                  \A i \in 1..Len(s) : keys[i] <= k
           p == CHOOSE i \in 1..Len(s) :
                  keys[i] = m /\ \A j \in 1..(i - 1) : keys[j] # m
       IN <<s[p]>> \o SortDesc(Without(s, p), Without(keys, p))

IsFinished(f) == f.finished
EventKeys(s) == [i \in 1..Len(s) |-> OrZero(s[i].event)]

\* fixtures.filter(f => f.finished).sort((a, b) => (b.event || 0) - (a.event || 0))
Finished(fixtures) ==
  LET done == SelectSeq(fixtures, IsFinished) IN SortDesc(done, EventKeys(done))

WINDOW == 10

\* finished.filter(f => f.team_h === id || f.team_a === id).slice(0, 10)
TeamGames(finished, id) ==
  LET Involves(f) == f.team_h = id \/ f.team_a = id
      mine == SelectSeq(finished, Involves)
  IN SubSeq(mine, 1, Min(WINDOW, Len(mine)))

\* gf and ga of fixture f for team id (lines 54-56).
GoalsFor(f, id) == IF f.team_h = id THEN f.team_h_score ELSE f.team_a_score
GoalsAgainst(f, id) == IF f.team_h = id THEN f.team_a_score ELSE f.team_h_score

\* gf > ga ? 3 : gf === ga ? 1 : 0   (> converts null to 0, === does not)
Pts(gf, ga) == IF OrZero(gf) > OrZero(ga) THEN 3 ELSE IF gf = ga THEN 1 ELSE 0

\* if (ga === 0) cs++
CsStep(ga) == IF ga = 0 THEN 1 ELSE 0

\* if (i < 5) form += pts * (5 - i), i counted from 0; here j = i + 1.
FormStep(pts, j) == IF j - 1 < 5 THEN pts * (5 - (j - 1)) ELSE 0

RECURSIVE Accumulate(_, _, _)
\* teamGames.forEach(...) from position j on: <<cs, scored, conceded, form>>.
Accumulate(games, id, j) ==
  IF j > Len(games) THEN <<0, 0, 0, 0>>
  ELSE LET gf == GoalsFor(games[j], id)
           ga == GoalsAgainst(games[j], id)
           rest == Accumulate(games, id, j + 1)
       IN <<rest[1] + CsStep(ga),
            rest[2] + OrZero(gf),
            rest[3] + OrZero(ga),
            rest[4] + FormStep(Pts(gf, ga), j)>>

MOMENTUM_MAX == 45

\* The record of teamStats.set(team.id, {...}), lines 64-69.
StatsOf(fixtures, id) ==
  LET games == TeamGames(Finished(fixtures), id)
      n == Len(games)
      acc == Accumulate(games, id, 1)
  IN [csRate |-> IF n # 0 THEN Rat(acc[1], n) ELSE <<0, 1>>,
      goalsPerGame |-> IF n # 0 THEN Rat(acc[2], n) ELSE <<0, 1>>,
      concededPerGame |-> IF n # 0 THEN Rat(acc[3], n) ELSE <<0, 1>>,
      momentum |-> Rat(acc[4], MOMENTUM_MAX)]

TeamIds(bootstrap) == {bootstrap.teams[i].id : i \in 1..Len(bootstrap.teams)}

\* new Map(bootstrap.teams.map(t => [t.id, t])): the last entry of an id wins.
TeamsMap(bootstrap) ==
  [id \in TeamIds(bootstrap) |->
     LET last == CHOOSE i \in 1..Len(bootstrap.teams) :
                   /\ bootstrap.teams[i].id = id
                   /\ \A j \in (i + 1)..Len(bootstrap.teams) : bootstrap.teams[j].id # id
     IN bootstrap.teams[last]]

\* The loop of lines 49-70 on the module-level teamStats map: set() adds or
\* overwrites the entries of the bootstrap's teams and removes nothing.
SetTeamStats(old, bootstrap, fixtures) ==
  [id \in (DOMAIN old) \cup TeamIds(bootstrap) |->
     IF id \in TeamIds(bootstrap) THEN StatsOf(fixtures, id) ELSE old[id]]

--------------------------------------------------------------------------
(* getBadge and getCSProb, lines 75-88.                                    *)

NoBadge == 0

\* getBadge(team): the badge URL is modelled by the team code it ends with,
\* the empty string by NoBadge.  known is FALSE for an undefined team.
GetBadge(known, team) ==
  IF known /\ team.code # Null /\ team.code # 0 THEN team.code ELSE NoBadge

CS_DEFAULT == 25
CS_MIN == 5
CS_MAX == 55

\* The factor with the 1.5 test ahead of the 2 test: 0.6 is never applied.
FactorLowTestFirst(goalsPerGame) ==
  IF RatLess(<<3, 2>>, goalsPerGame) THEN 75
  ELSE IF RatLess(<<2, 1>>, goalsPerGame) THEN 60
  ELSE IF RatLess(goalsPerGame, <<4, 5>>) THEN 120
  ELSE 100

\* The factor applied to prob, in hundredths (lines 84-86).
Factor(goalsPerGame) ==
  IF RatLess(<<2, 1>>, goalsPerGame) THEN 60
  ELSE IF RatLess(<<3, 2>>, goalsPerGame) THEN 75
  ELSE IF RatLess(goalsPerGame, <<4, 5>>) THEN 120
  ELSE 100

\* Math.max(5, Math.min(55, prob)) on a fraction.
Clamp(prob) ==
  IF RatLess(prob, <<CS_MIN, 1>>) THEN <<CS_MIN, 1>>
  ELSE IF RatLess(<<CS_MAX, 1>>, prob) THEN <<CS_MAX, 1>>
  ELSE prob

\* Math.round of an exact fraction: floor(x + 1/2).
RoundHalfUp(x) == (2 * x[1] + x[2]) \div (2 * x[2])

\* prob is an IEEE-754 double.  For csRate = c/n with n <= 10 and the three
\* factors, the double product rounds as the exact product does, except that
\* (1/6) * 100 * 0.75 is 12.499999999999998, just short of the exact 12.5.
DoubleShortOfHalf(csRate, factor) == csRate = <<1, 6>> /\ factor = 75

GetCSProb(stats, teamId, oppId) ==
  IF teamId \notin DOMAIN stats \/ oppId \notin DOMAIN stats THEN CS_DEFAULT
  ELSE LET team == stats[teamId]
           opp == stats[oppId]
           factor == Factor(opp.goalsPerGame)
           prob == Rat(team.csRate[1] * factor, team.csRate[2])
           r == RoundHalfUp(Clamp(prob))
       IN IF DoubleShortOfHalf(team.csRate, factor) THEN r - 1 ELSE r

--------------------------------------------------------------------------
(* The route bodies, lines 95-106 and 118-140.                             *)

DEFAULT_GW == 1
DEFAULT_WEEKS == 6

\* bootstrap.events.find(e => e.is_current), then currentGW ? currentGW.id : 1
CurrentGW(bootstrap) ==
  LET cur == {i \in 1..Len(bootstrap.events) : bootstrap.events[i].is_current} IN
  IF cur = {} THEN DEFAULT_GW
  ELSE bootstrap.events[CHOOSE i \in cur : \A j \in cur : i <= j].id

\* parseInt(req.query.weeks) || 6, query the parsed number or Null (absent, NaN).
Weeks(query) == IF query = Null \/ query = 0 THEN DEFAULT_WEEKS ELSE query

\* The window with its upper end included: f.event > gwId + weeks.
InWindowInclusive(f, gwId, weeks) ==
  ~(f.event = Null \/ f.event = 0 \/ f.event < gwId \/ f.event > gwId + weeks)

\* The guard of line 133 negated: the fixture is enriched.
InWindow(f, gwId, weeks) ==
  ~(f.event = Null \/ f.event = 0 \/ f.event < gwId \/ f.event >= gwId + weeks)

OppName(byId, id) == IF id \in DOMAIN byId THEN byId[id].short_name ELSE "?"
OppBadge(byId, id) ==
  IF id \in DOMAIN byId THEN GetBadge(TRUE, byId[id]) ELSE GetBadge(FALSE, <<>>)

\* The two rows pushed for fixture f (lines 136-137).
RowsOf(f, byId, stats) ==
  << [teamId |-> f.team_h, gw |-> f.event, opp |-> OppName(byId, f.team_a),
      oppBadge |-> OppBadge(byId, f.team_a), isHome |-> TRUE,
      fdr |-> f.team_h_difficulty, cs |-> GetCSProb(stats, f.team_h, f.team_a)],
     [teamId |-> f.team_a, gw |-> f.event, opp |-> OppName(byId, f.team_h),
      oppBadge |-> OppBadge(byId, f.team_h), isHome |-> FALSE,
      fdr |-> f.team_a_difficulty, cs |-> GetCSProb(stats, f.team_a, f.team_h)] >>

RECURSIVE Enrich(_, _, _, _, _)
\* for (const f of fixturesData) { if (...) continue; push; push }
Enrich(fx, byId, stats, gwId, weeks) ==
  IF fx = <<>> THEN <<>>
  ELSE (IF InWindow(Head(fx), gwId, weeks) THEN RowsOf(Head(fx), byId, stats) ELSE <<>>)
       \o Enrich(Tail(fx), byId, stats, gwId, weeks)

POSITIONS == <<"GK", "DEF", "MID", "FWD">>

\* bootstrap.elements.filter(...).sort(...).slice(0, 3).map(...)
TopPlayers(bootstrap, id) ==
  LET Mine(p) == p.team = id /\ p.status = "a"
      mine == SelectSeq(bootstrap.elements, Mine)
      sorted == SortDesc(mine, [i \in 1..Len(mine) |-> mine[i].total_points])
  IN [i \in 1..Min(3, Len(sorted)) |->
        [name |-> sorted[i].web_name, points |-> sorted[i].total_points,
         pos |-> POSITIONS[sorted[i].element_type]]]

\* res.json of /api/fixtures; teams is keyed by id (the array order is not modelled).
FixturesBody(byId, stats, fx, bootstrap, weeks) ==
  LET gwId == CurrentGW(bootstrap) IN
  [status |-> 200,
   teams |-> [id \in DOMAIN byId |->
                [name |-> byId[id].name, shortName |-> byId[id].short_name,
                 badge |-> GetBadge(TRUE, byId[id]),
                 stats |-> IF id \in DOMAIN stats THEN stats[id] ELSE <<>>,
                 topPlayers |-> TopPlayers(bootstrap, id)]],
   fixtures |-> Enrich(fx, byId, stats, gwId, weeks),
   currentGW |-> gwId]

\* res.json of /api/bootstrap (of a player, the fields the model carries).
BootstrapBody(data) ==
  [status |-> 200,
   players |-> [i \in 1..Len(data.elements) |->
                  [id |-> data.elements[i].id,
                   webName |-> data.elements[i].web_name, teamId |-> data.elements[i].team,
                   position |-> data.elements[i].element_type,
                   cost |-> data.elements[i].now_cost,
                   totalPoints |-> data.elements[i].total_points,
                   status |-> data.elements[i].status]],
   teams |-> [i \in 1..Len(data.teams) |->
                [id |-> data.teams[i].id, name |-> data.teams[i].name,
                 shortName |-> data.teams[i].short_name,
                 badge |-> GetBadge(TRUE, data.teams[i])]],
   currentGameweek |-> CurrentGW(data)]

\* Both catch blocks answering as /api/fixtures does.
ErrorBodyOfFixtures(route) == [status |-> 500, error |-> "Failed"]

\* The catch blocks, lines 107-110 and 141-144.
ErrorBody(route) ==
  IF route = "bootstrap" THEN [status |-> 503, error |-> "FPL API unavailable"]
  ELSE [status |-> 500, error |-> "Failed"]

--------------------------------------------------------------------------
(* The server.  A step runs one request's handler from where it stands to  *)
(* its next pending upstream fetch or to its response: JavaScript runs a   *)
(* continuation to completion, and only the upstream fetch of line 25      *)
(* (with the body read of line 29) waits for the outside.                  *)
(*                                                                         *)
(* sh is the module state <<cache, teamsById, teamStats, fixturesData>>    *)
(* with stored, the record of the last setCache call of each key; q is the *)
(* request: its route, the line it waits at, its locals, the fetchFPL      *)
(* calls it has made, and its response.                                    *)

MaxReqs == 1
MaxTicks == 2
TickMs == 300000

Reqs == 1..MaxReqs

NoBootstrap == [teams |-> <<>>, events |-> <<>>, elements |-> <<>>]
NoResp == [status |-> 0]
NeverStored == [some |-> FALSE]

\* calls: the fetchFPL calls of the handler's latest step, each with the age of
\* the endpoint's last stored value at the call; live: the upstream
\* requests (line 25) the handler has issued so far, per endpoint.
IdleReq ==
  [route |-> "none", pc |-> "idle", weeks |-> DEFAULT_WEEKS, data |-> NoBootstrap,
   ldBootstrap |-> NoBootstrap, calls |-> <<>>,
   live |-> [ep \in {BOOTSTRAP, FIXTURES} |-> 0], resp |-> NoResp, sent |-> 0]

\* setCache on the module state at time t, remembered in stored.
Store(sh, key, value, t) ==
  [sh EXCEPT !.cache = SetCache(sh.cache, key, value, t),
             !.stored[key] = [some |-> TRUE, at |-> t, value |-> value]]

\* The milliseconds at t since the last setCache of key (0 if there was none).
AgeAt(sh, key, t) == IF sh.stored[key].some THEN t - sh.stored[key].at ELSE 0

\* Whether fetchFPL's result is the value last stored under key.
IsStored(sh, key, value) == sh.stored[key].some /\ sh.stored[key].value = value

\* fetchFPL returned `cached` (line 23).
LogHit(sh, q, ep, t, value) ==
  [q EXCEPT !.calls = Append(@, [ep |-> ep, outcome |-> "hit",
                                  had |-> sh.stored[ep].some,
                                  age |-> AgeAt(sh, ep, t),
                                  same |-> IsStored(sh, ep, value)])]

\* fetchFPL went to the upstream (line 25) and the request waits at line pc.
LogLive(sh, q, ep, t, pc) ==
  [q EXCEPT !.pc = pc,
            !.live[ep] = @ + 1,
            !.calls = Append(@, [ep |-> ep, outcome |-> "pending",
                                  had |-> sh.stored[ep].some,
                                  age |-> AgeAt(sh, ep, t),
                                  same |-> FALSE])]

\* The pending call of q ends with outcome o; it opens the step's calls.
EndCall(q, o) ==
  [q EXCEPT !.calls = <<[q.calls[Len(q.calls)] EXCEPT !.outcome = o]>>]

\* res.json(...) / res.status(...).json(...)
Respond(sh, q, body) ==
  [sh |-> sh, q |-> [q EXCEPT !.pc = "done", !.resp = body, !.sent = @ + 1]]

\* /api/fixtures from line 118 on, with the bootstrap line 117 returned.
FixturesTail(sh, q, bootstrap) ==
  Respond(sh, q, FixturesBody(sh.teamsById, sh.teamStats, sh.fixturesData,
                              bootstrap, q.weeks))

\* The route after `await loadData()`: line 95 of /api/bootstrap, line 117 of
\* /api/fixtures.
AfterLoadData(sh, q, t) ==
  IF q.route = "bootstrap" THEN Respond(sh, q, BootstrapBody(q.data))
  ELSE LET g == GetCache(sh.cache, BOOTSTRAP, t) IN
       IF g.some THEN FixturesTail(sh, LogHit(sh, q, BOOTSTRAP, t, g.value), g.value)
       ELSE [sh |-> sh, q |-> LogLive(sh, q, BOOTSTRAP, t, "L117")]

\* loadData lines 44-72, with both fetches returned.
LoadDataBody(sh, bootstrap, fixtures, t) ==
  Store([sh EXCEPT !.teamsById = TeamsMap(bootstrap),
                   !.fixturesData = fixtures,
                   !.teamStats = SetTeamStats(sh.teamStats, bootstrap, fixtures)],
        LOADED, TRUE, t)

\* loadData line 42, bootstrap being the value line 41 returned.
LoadFixtures(sh, q, bootstrap, t) ==
  LET g == GetCache(sh.cache, FIXTURES, t) IN
  IF g.some
  THEN AfterLoadData(LoadDataBody(sh, bootstrap, g.value, t),
                     LogHit(sh, q, FIXTURES, t, g.value), t)
  ELSE [sh |-> sh,
        q |-> [LogLive(sh, q, FIXTURES, t, "L42") EXCEPT !.ldBootstrap = bootstrap]]

\* loadData from line 39.
LoadData(sh, q, t) ==
  IF GetCache(sh.cache, LOADED, t).some THEN AfterLoadData(sh, q, t)
  ELSE LET g == GetCache(sh.cache, BOOTSTRAP, t) IN
       IF g.some THEN LoadFixtures(sh, LogHit(sh, q, BOOTSTRAP, t, g.value), g.value, t)
       ELSE [sh |-> sh, q |-> LogLive(sh, q, BOOTSTRAP, t, "L41")]

\* app.get('/api/bootstrap') from line 93.
BootstrapRoute(sh, q, t) ==
  LET g == GetCache(sh.cache, BOOTSTRAP, t) IN
  IF g.some
  THEN LoadData(sh, [LogHit(sh, q, BOOTSTRAP, t, g.value) EXCEPT !.data = g.value], t)
  ELSE [sh |-> sh, q |-> LogLive(sh, q, BOOTSTRAP, t, "L93")]

\* app.get('/api/fixtures') from line 115.
FixturesRoute(sh, q, query, t) == LoadData(sh, [q EXCEPT !.weeks = Weeks(query)], t)

\* The upstream answered the pending fetch of q with `data` (lines 28-31):
\* fetchFPL stores and returns it, and the caller goes on.
Resume(sh, q, data, t) ==
  LET ep == q.calls[Len(q.calls)].ep
      sh2 == Store(sh, ep, data, t)
      q2 == EndCall(q, "ok")
  IN CASE q.pc = "L93" -> LoadData(sh2, [q2 EXCEPT !.data = data], t)
       [] q.pc = "L41" -> LoadFixtures(sh2, q2, data, t)
       [] q.pc = "L42" -> AfterLoadData(LoadDataBody(sh2, q.ldBootstrap, data, t), q2, t)
       [] q.pc = "L117" -> FixturesTail(sh2, q2, data)

\* The pending fetch of q failed (fetch rejected, !res.ok, or res.json rejected):
\* fetchFPL throws, loadData rethrows, the route's catch answers.
Throw(sh, q) == Respond(sh, EndCall(q, "failed"), ErrorBody(q.route))

--------------------------------------------------------------------------
(* The page's squad builder (the script of lines 169-355).                 *)

\* var bank = 1000 (line 175), and the squad size of line 338.
BUDGET == 1000
SQUAD_MAX == 15

\* No call of addPlayer or removePlayer yet.
NoCall == [fn |-> "none", id |-> 0, bootstrap |-> NoResp, squad |-> <<>>, bank |-> BUDGET]

\* Whether b.players is an array: not while bootstrap is null (line 172), and
\* not when /api/bootstrap answered with its error body (line 109).
HasPlayers(b) == "players" \in DOMAIN b

\* Array.prototype.find / findIndex with x.id === id: the first index, 0 if none.
FirstWithId(s, id) ==
  IF \E i \in 1..Len(s) : s[i].id = id
  THEN CHOOSE i \in 1..Len(s) : s[i].id = id /\ \A k \in 1..(i - 1) : s[k].id # id
  ELSE 0

\* A further test that never fires in place of p.cost > bank.
OverBudgetIgnored(p, bk) == FALSE

\* p.cost > bank (line 338)
OverBudget(p, bk) == p.cost > bk

\* addPlayer(id), lines 336-342: squad and bank afterwards.  bootstrap.players
\* of a bootstrap without players throws at line 337, before any assignment;
\* render() (line 341) assigns neither squad nor bank.
AddPlayer(b, sq, bk, id) ==
  IF ~HasPlayers(b) THEN [squad |-> sq, bank |-> bk]
  ELSE LET i == FirstWithId(b.players, id) IN
       IF i = 0 THEN [squad |-> sq, bank |-> bk]
       ELSE IF Len(sq) >= SQUAD_MAX \/ OverBudget(b.players[i], bk)
            THEN [squad |-> sq, bank |-> bk]
            ELSE [squad |-> Append(sq, b.players[i]), bank |-> bk - b.players[i].cost]

\* squad.splice(idx, 1)
Splice(s, idx) == [i \in 1..(Len(s) - 1) |-> IF i < idx THEN s[i] ELSE s[i + 1]]

\* removePlayer(id), lines 344-351: squad and bank afterwards.
RemovePlayer(sq, bk, id) ==
  LET idx == FirstWithId(sq, id) IN
  IF idx >= 1 THEN [squad |-> Splice(sq, idx), bank |-> bk + sq[idx].cost]
  ELSE [squad |-> sq, bank |-> bk]

--------------------------------------------------------------------------
(* What the upstream may answer.                                           *)

Team(id, name, short, code) ==
  [id |-> id, name |-> name, short_name |-> short, code |-> code]

Player(id, name, team, type, points, status, cost) ==
  [id |-> id, web_name |-> name, team |-> team, element_type |-> type,
   total_points |-> points, status |-> status, now_cost |-> cost]

Event(id, current) == [id |-> id, is_current |-> current]

Fx(h, a, event, finished, hs, as, hd, ad) ==
  [team_h |-> h, team_a |-> a, event |-> event, finished |-> finished,
   team_h_score |-> hs, team_a_score |-> as,
   team_h_difficulty |-> hd, team_a_difficulty |-> ad]

ARS == Team(1, "Arsenal", "ARS", 3)
CHE == Team(2, "Chelsea", "CHE", 8)
LEE == Team(3, "Leeds", "LEE", Null)

\* One season's bootstrap, and a later one: a club replaced, the gameweek moved on.
BootA ==
  [teams |-> <<ARS, CHE>>,
   events |-> <<Event(1, TRUE), Event(2, FALSE)>>,
   elements |-> <<Player(1, "Saka", 1, 3, 10, "a", 100),
                 Player(2, "Palmer", 2, 3, 12, "a", 105)>>]
BootB ==
  [teams |-> <<ARS, LEE>>,
   events |-> <<Event(1, FALSE), Event(2, TRUE)>>,
   elements |-> <<Player(1, "Saka", 1, 3, 17, "a", 101),
                 Player(3, "Rice", 1, 3, 9, "i", 65)>>]
Bootstraps == {BootA, BootB}

FxA ==
  <<Fx(1, 2, 1, TRUE, 2, 0, 3, 4), Fx(2, 1, 2, FALSE, Null, Null, 4, 3)>>
FxB ==
  <<Fx(1, 2, 1, TRUE, 2, 0, 3, 4), Fx(3, 1, 2, TRUE, 1, 1, 2, 5),
    Fx(1, 3, 3, FALSE, Null, Null, 2, 4), Fx(2, 3, Null, FALSE, Null, Null, 3, 3)>>
FixtureLists == {FxA, FxB}

\* req.query.weeks after parseInt: absent.
Queries == {Null}

--------------------------------------------------------------------------
(* The state machine.                                                      *)

Shared ==
  [cache |-> cache, stored |-> stored, teamsById |-> teamsById,
   teamStats |-> teamStats, fixturesData |-> fixturesData]

\* The step's result becomes the server's next state.
Served(r, res) ==
  /\ cache' = res.sh.cache
  /\ stored' = res.sh.stored
  /\ teamsById' = res.sh.teamsById
  /\ teamStats' = res.sh.teamStats
  /\ fixturesData' = res.sh.fixturesData
  /\ reqs' = [reqs EXCEPT ![r] = res.q]
  /\ UNCHANGED now

\* A step of the server alone: no page's script runs.
Becomes(r, res) == Served(r, res) /\ UNCHANGED client

Waiting(q) == q.pc \in {"L93", "L41", "L42", "L117"}

\* A response goes out (Close) before anything else happens: res.json ends the
\* handler, and the response is out of the server's hands.
NoneDone == \A r \in Reqs : reqs[r].pc # "done"

\* Connections are taken in the order of their numbers.
MayArrive(r) ==
  /\ NoneDone
  /\ reqs[r].pc = "idle"
  /\ \A k \in 1..(r - 1) : reqs[k].pc # "idle"

Init ==
  /\ now = 0
  /\ cache = [k \in Keys |-> NoItem]
  /\ stored = [k \in Keys |-> NeverStored]
  /\ teamsById = <<>>
  /\ teamStats = <<>>
  /\ fixturesData = <<>>
  /\ reqs = [r \in Reqs |-> IdleReq]
  /\ clientBootstrap = NoResp
  /\ squad = <<>>
  /\ bank = BUDGET
  /\ call = NoCall

\* GET /api/bootstrap arrives.
ArriveBootstrap(r) ==
  /\ MayArrive(r)
  /\ Becomes(r, BootstrapRoute(Shared, [reqs[r] EXCEPT !.route = "bootstrap"], now))

\* GET /api/fixtures?weeks=query arrives.
ArriveFixtures(r, query) ==
  /\ MayArrive(r)
  /\ Becomes(r, FixturesRoute(Shared, [reqs[r] EXCEPT !.route = "fixtures"], query, now))

Pending(q) == q.calls[Len(q.calls)].ep

\* The upstream answers the pending '/bootstrap-static/' fetch of request r.
UpstreamBootstrap(r, data) ==
  /\ NoneDone
  /\ Waiting(reqs[r])
  /\ Pending(reqs[r]) = BOOTSTRAP
  /\ Becomes(r, Resume(Shared, reqs[r], data, now))

\* The upstream answers the pending '/fixtures/' fetch of request r.
UpstreamFixtures(r, data) ==
  /\ NoneDone
  /\ Waiting(reqs[r])
  /\ Pending(reqs[r]) = FIXTURES
  /\ Becomes(r, Resume(Shared, reqs[r], data, now))

\* The pending fetch of request r fails.
UpstreamFail(r) ==
  /\ NoneDone
  /\ Waiting(reqs[r])
  /\ Becomes(r, Throw(Shared, reqs[r]))

\* The response of request r has gone out; its number names the next request.
Close(r) ==
  /\ reqs[r].pc = "done"
  /\ reqs' = [reqs EXCEPT ![r] = IdleReq]
  /\ UNCHANGED <<now, cache, stored, teamsById, teamStats, fixturesData>>
  /\ UNCHANGED client

\* Date.now() moves on.
Tick ==
  /\ NoneDone
  /\ now + TickMs <= MaxTicks * TickMs
  /\ now' = now + TickMs
  /\ UNCHANGED <<cache, stored, teamsById, teamStats, fixturesData, reqs>>
  /\ UNCHANGED client

Next ==
  \/ \E r \in Reqs : ArriveBootstrap(r)
  \/ \E r \in Reqs, query \in Queries : ArriveFixtures(r, query)
  \/ \E r \in Reqs, data \in Bootstraps : UpstreamBootstrap(r, data)
  \/ \E r \in Reqs, data \in FixtureLists : UpstreamFixtures(r, data)
  \/ \E r \in Reqs : UpstreamFail(r)
  \/ \E r \in Reqs : Close(r)
  \/ Tick

Spec == Init /\ [][Next]_vars

--------------------------------------------------------------------------
(* Claims about the cache, the refresh and the routes, under Spec.         *)

TeamIdsSeen == {1, 2, 3}
Endpoints == {BOOTSTRAP, FIXTURES}

Answered(r) == reqs[r].pc = "done"
AnsweredOk(r, route) ==
  Answered(r) /\ reqs[r].route = route /\ reqs[r].resp.status = 200
HasFailedCall(q) == \E i \in 1..Len(q.calls) : q.calls[i].outcome = "failed"

\* C1: after any sequence of refreshes teamStats holds no carry-over state: its
\* keys are the team ids of the bootstrap of the latest refresh (the keys of
\* teamsById, rebuilt by that refresh), each record is the statistics of that
\* refresh's fixtures, and getCSProb with a team absent from the latest bootstrap
\* is the missing-stats default.
C1_NoCarryOver ==
  /\ DOMAIN teamStats = DOMAIN teamsById
  /\ \A id \in DOMAIN teamStats : teamStats[id] = StatsOf(fixturesData, id)
  /\ \A id \in TeamIdsSeen \ DOMAIN teamsById, opp \in TeamIdsSeen :
       /\ GetCSProb(teamStats, id, opp) = 25
       /\ GetCSProb(teamStats, opp, id) = 25

\* C2: what an /api/fixtures response reads from teamsById, teamStats and
\* fixturesData was rebuilt from the values fetchFPL last stored: the response
\* never joins the gameweek and top players of one bootstrap with teams and
\* statistics of an older one.
C2_ResponseReadsLatest ==
  \A r \in Reqs :
    AnsweredOk(r, "fixtures") =>
      /\ stored[BOOTSTRAP].some /\ stored[FIXTURES].some
      /\ teamsById = TeamsMap(stored[BOOTSTRAP].value)
      /\ fixturesData = stored[FIXTURES].value
      /\ \A id \in DOMAIN teamsById :
           /\ id \in DOMAIN teamStats
           /\ teamStats[id] = StatsOf(stored[FIXTURES].value, id)

\* C3: one request issues at most one upstream fetch of '/bootstrap-static/'
\* and at most one of '/fixtures/'.
C3_OneFetchPerEndpoint ==
  \A r \in Reqs : \A ep \in Endpoints : reqs[r].live[ep] <= 1

\* C4: a request whose upstream fetch fails is answered once, 503 'FPL API
\* unavailable' on /api/bootstrap and 500 'Failed' on /api/fixtures; the failed
\* fetch is not retried (no upstream request follows it), stores nothing, does
\* not set 'loaded', and leaves teamsById, teamStats and fixturesData as they were.
C4_FailedAnswer ==
  \A r \in Reqs :
    HasFailedCall(reqs[r]) =>
      /\ Answered(r)
      /\ reqs[r].sent = 1
      /\ reqs[r].calls[Len(reqs[r].calls)].outcome = "failed"
      /\ Len(reqs[r].calls) = 1
      /\ reqs[r].route = "bootstrap" =>
           reqs[r].resp = [status |-> 503, error |-> "FPL API unavailable"]
      /\ reqs[r].route = "fixtures" =>
           reqs[r].resp = [status |-> 500, error |-> "Failed"]

C4_FailedStep ==
  \A r \in Reqs :
    (~HasFailedCall(reqs[r]) /\ HasFailedCall(reqs'[r])) =>
      /\ cache' = cache
      /\ teamsById' = teamsById
      /\ teamStats' = teamStats
      /\ fixturesData' = fixturesData
      /\ reqs'[r].live = reqs[r].live

C4_FailedFetch == [](C4_FailedAnswer) /\ [][C4_FailedStep]_vars

\* C4 witness: a failed fetch has been answered while the cache and the derived
\* maps held data.
C4_Witness ==
  \E r \in Reqs :
    /\ HasFailedCall(reqs[r])
    /\ reqs[r].route = "fixtures"
    /\ cache[LOADED].present
    /\ teamsById # <<>>

\* C9: fetchFPL returns the stored value, with no upstream request, exactly when
\* the endpoint's value was stored within the last 300000 ms; a value stored by
\* fetchFPL expires 300000 ms after the store.
C9_CacheTtl ==
  /\ \A r \in Reqs : \A i \in 1..Len(reqs[r].calls) :
       LET c == reqs[r].calls[i] IN
       /\ c.outcome = "hit" => c.had /\ c.age <= 300000 /\ c.same
       /\ c.outcome # "hit" => ~c.had \/ c.age > 300000
  /\ \A ep \in Endpoints :
       cache[ep].present =>
         /\ stored[ep].some
         /\ cache[ep].value = stored[ep].value
         /\ cache[ep].expiry = stored[ep].at + 300000

\* C9 witness: a value is returned exactly 300000 ms after it was stored, and
\* another endpoint's value, older, was fetched again.
C9_Witness ==
  \E r \in Reqs : \E i, j \in 1..Len(reqs[r].calls) :
    /\ reqs[r].calls[i].outcome = "hit"
    /\ reqs[r].calls[i].age = 300000
    /\ reqs[r].calls[j].outcome = "pending"
    /\ now > 0

--------------------------------------------------------------------------
(* StatsSpec: the statistics of growing fixture lists.  Each step is an     *)
(* /api/fixtures request served with every cache entry expired and the     *)
(* upstream's fixture list one fixture longer than the list last loaded:   *)
(* loadData from line 44 and the route from line 118, with no wait.        *)

MaxFixtures == 11

\* The fixtures the upstream may add to a list of n fixtures.  The first two
\* are drawn from the unusual ones (no gameweek, no score, one score, a club
\* the bootstrap does not list, not finished); the later ones are results of
\* gameweek n + 1 between the two listed clubs.
NewFixtures(n) ==
  IF n < 2
  THEN {Fx(1, 2, Null, TRUE, Null, Null, 3, 4),
        Fx(2, 1, 20, TRUE, 0, 0, 2, 2),
        Fx(1, 3, 2, TRUE, Null, 0, 2, 5),
        Fx(2, 1, 3, FALSE, Null, Null, 4, 3),
        Fx(3, 2, 1, TRUE, 0, 5, 1, 3),
        Fx(1, 2, 9, TRUE, 0, 3, 5, 1)}
  ELSE {Fx(1, 2, n + 1, TRUE, 1, 0, 3, 4),
        Fx(2, 1, n + 1, TRUE, 2, 2, 4, 3)}

\* /api/fixtures?weeks=query served at time t with both upstream fetches
\* answered at once: fetchFPL stores bootstrap and fixtures (line 30), loadData
\* runs lines 44-72, line 117 returns the bootstrap just stored, and the route
\* answers.
ServeFresh(sh, bootstrap, fixtures, query, t) ==
  LET q == [IdleReq EXCEPT !.route = "fixtures", !.weeks = Weeks(query)]
      fetched == Store(Store(sh, BOOTSTRAP, bootstrap, t), FIXTURES, fixtures, t)
  IN FixturesTail(LoadDataBody(fetched, bootstrap, fixtures, t), q, bootstrap)

StatsRefresh(f) ==
  /\ Len(fixturesData) < MaxFixtures
  /\ f \in NewFixtures(Len(fixturesData))
  /\ Becomes(1, ServeFresh(Shared, BootA, Append(fixturesData, f), Null, now))

StatsNext == \E f \in NewFixtures(0) \cup UNION {NewFixtures(n) : n \in 2..MaxFixtures} : StatsRefresh(f)

StatsSpec == Init /\ [][StatsNext]_vars

--------------------------------------------------------------------------
(* Claims about the statistics and getCSProb, under StatsSpec.             *)

RECURSIVE SumOver(_, _)
\* The sum of f[i] for i in the finite set S.
SumOver(f, S) ==
  IF S = {} THEN 0
  ELSE LET i == CHOOSE x \in S : TRUE IN f[i] + SumOver(f, S \ {i})

Involved(f, id) == f.team_h = id \/ f.team_a = id

\* The stats window of team id: what loadData keeps of the loaded fixtures.
WindowOf(id) == TeamGames(Finished(fixturesData), id)

\* The goals of team id and of its opponent in fixture f, a missing score
\* counting as 0 goals.
Scored(f, id) == OrZero(IF f.team_h = id THEN f.team_h_score ELSE f.team_a_score)
Conceded(f, id) == OrZero(IF f.team_h = id THEN f.team_a_score ELSE f.team_h_score)

CountIn(s, f) == Cardinality({i \in 1..Len(s) : s[i] = f})

ScoresRecorded ==
  \A i \in 1..Len(fixturesData) :
    fixturesData[i].team_h_score # Null /\ fixturesData[i].team_a_score # Null

ZeroNulls(fx) ==
  [i \in 1..Len(fx) |->
     [fx[i] EXCEPT !.team_h_score = OrZero(@), !.team_a_score = OrZero(@)]]

\* C5: a missing score counts as 0 goals: each team's record equals the record
\* of the same fixtures with every null score replaced by 0.
C5_MissingScoreAsZero ==
  \A id \in DOMAIN teamsById :
    teamStats[id] = StatsOf(ZeroNulls(fixturesData), id)

\* The window part of C6 for team id.
C6_Window(id) ==
  LET W == WindowOf(id)
      mine == {i \in 1..Len(fixturesData) :
                 fixturesData[i].finished /\ Involved(fixturesData[i], id)}
  IN /\ Len(W) = Min(10, Cardinality(mine))
     /\ \A i \in 1..Len(W) :
          /\ W[i].finished /\ Involved(W[i], id)
          /\ CountIn(W, W[i]) <= CountIn(fixturesData, W[i])
          /\ i > 1 => OrZero(W[i - 1].event) >= OrZero(W[i].event)
     /\ \A j \in mine :
          (\E i \in 1..Len(W) : OrZero(fixturesData[j].event) > OrZero(W[i].event))
            => CountIn(W, fixturesData[j]) = CountIn(fixturesData, fixturesData[j])

\* The rates part of C6 for team id.
C6_Rates(id) ==
  LET W == WindowOf(id)
      n == Len(W)
      clean == Cardinality({i \in 1..n : Conceded(W[i], id) = 0})
      for == SumOver([i \in 1..n |-> Scored(W[i], id)], 1..n)
      against == SumOver([i \in 1..n |-> Conceded(W[i], id)], 1..n)
      st == teamStats[id]
  IN /\ n > 0 => /\ st.csRate = Rat(clean, n)
                 /\ st.goalsPerGame = Rat(for, n)
                 /\ st.concededPerGame = Rat(against, n)
     /\ 0 <= st.csRate[1] /\ st.csRate[1] <= st.csRate[2]
     /\ n = 0 => st = [csRate |-> <<0, 1>>, goalsPerGame |-> <<0, 1>>,
                       concededPerGame |-> <<0, 1>>, momentum |-> <<0, 1>>]

\* C6: each team's window is the first at most 10 of its finished fixtures by
\* descending gameweek (none: 0), and csRate, goalsPerGame, concededPerGame are
\* the clean sheets, goals scored and goals conceded of the window over its
\* size, csRate within [0,1]; no finished fixture gives the all-zero record.
C6_WindowAndRates ==
  \A id \in DOMAIN teamsById : C6_Window(id) /\ C6_Rates(id)

\* C6 where every score is recorded.
C6_WithRecordedScores == ScoresRecorded => C6_WindowAndRates

\* Win 3, draw 1, loss 0 for team id in fixture f.
Points(f, id) ==
  IF Scored(f, id) > Conceded(f, id) THEN 3
  ELSE IF Scored(f, id) = Conceded(f, id) THEN 1 ELSE 0

C7_Momentum(id) ==
  LET W == WindowOf(id)
      m == Min(5, Len(W))
      form == SumOver([i \in 1..m |-> Points(W[i], id) * (5 - (i - 1))], 1..m)
      mom == teamStats[id].momentum
  IN /\ mom = Rat(form, 45)
     /\ 0 <= mom[1] /\ mom[1] <= mom[2]
     /\ (m = 5 /\ \A i \in 1..m : Points(W[i], id) = 3) => mom = <<1, 1>>
     /\ (\A i \in 1..m : Points(W[i], id) = 0) => mom = <<0, 1>>
     /\ (m = 5 /\ \A i \in 1..m : Points(W[i], id) = 1) => mom = <<1, 3>>

\* C7: momentum is the sum over the 5 most recent fixtures of the window of
\* points (win 3, draw 1, loss 0) times weight 5, 4, 3, 2, 1, over 45: within
\* [0,1], 1 for five wins, 0 when all are losses, 15/45 for five draws, and
\* independent of the window's positions 5..9.
C7_MomentumOfLastFive == \A id \in DOMAIN teamsById : C7_Momentum(id)

ScoresPaired ==
  \A i \in 1..Len(fixturesData) :
    (fixturesData[i].team_h_score = Null) <=> (fixturesData[i].team_a_score = Null)

\* C7 where each fixture has both scores or neither.
C7_WithPairedScores == ScoresPaired => C7_MomentumOfLastFive

\* The rows of the response of request 1, once answered with data.
RowsSent == IF AnsweredOk(1, "fixtures") THEN reqs[1].resp.fixtures ELSE <<>>

\* The probability C8 states for csRate and the opponent's goalsPerGame is an
\* integer p in [5,55] nearest to clamp(csRate * 100 * k, 5, 55).
C8_Nearest(p, csRate, goalsPerGame) ==
  LET k == IF goalsPerGame[1] > 2 * goalsPerGame[2] THEN 60
           ELSE IF 2 * goalsPerGame[1] > 3 * goalsPerGame[2] THEN 75
           ELSE IF 5 * goalsPerGame[1] < 4 * goalsPerGame[2] THEN 120
           ELSE 100
      num == csRate[1] * k
      den == csRate[2]
      lo == 5 * den
      hi == 55 * den
      x == IF num < lo THEN lo ELSE IF num > hi THEN hi ELSE num
      d == IF p * den >= x THEN p * den - x ELSE x - p * den
  IN p \in 5..55 /\ 2 * d <= den

\* C8 for the probability p that row `me` carries against the team of row `other`.
C8_Row(p, teamId, oppId) ==
  IF teamId \notin DOMAIN teamStats \/ oppId \notin DOMAIN teamStats
  THEN p = 25
  ELSE C8_Nearest(p, teamStats[teamId].csRate, teamStats[oppId].goalsPerGame)

\* C8: getCSProb is 25 when either team has no statistics, and otherwise the
\* integer in [5,55] that rounds clamp(csRate * 100 * k, 5, 55), k being 0.6,
\* 0.75, 1.2 or 1 by the opponent's goalsPerGame; csRate 0.4 against 2.5 goals
\* per game gives 24.  (The rows of a response come in pairs, home then away.)
C8_CleanSheetProbability ==
  /\ \A j \in 1..(Len(RowsSent) \div 2) :
       LET home == RowsSent[2 * j - 1]
           away == RowsSent[2 * j]
       IN /\ C8_Row(home.cs, home.teamId, away.teamId)
          /\ C8_Row(away.cs, away.teamId, home.teamId)
  /\ GetCSProb([id \in {1, 2} |-> [csRate |-> <<2, 5>>, goalsPerGame |-> <<5, 2>>]],
               1, 2) = 24

\* C8 witness: one response carries the default probability for a club without
\* statistics, a probability clamped to 5 and one strictly between the clamps,
\* with an opponent above 1.5 and one below 0.8 goals per game.
C8_Witness ==
  /\ \E i \in 1..Len(RowsSent) : RowsSent[i].teamId \notin DOMAIN teamStats
  /\ \E i \in 1..Len(RowsSent) : RowsSent[i].cs = 25
  /\ \E i \in 1..Len(RowsSent) : RowsSent[i].cs = 5
  /\ \E i \in 1..Len(RowsSent) : RowsSent[i].cs \in 6..54 \ {25}
  /\ \E id \in DOMAIN teamStats : RatLess(<<3, 2>>, teamStats[id].goalsPerGame)
  /\ \E id \in DOMAIN teamStats : RatLess(teamStats[id].goalsPerGame, <<4, 5>>)

--------------------------------------------------------------------------
(* EnrichSpec: the rows of /api/fixtures for short fixture lists, any of    *)
(* the bootstraps and any weeks query; each step is a request served as in  *)
(* StatsSpec, the upstream's list one fixture longer.                       *)

MaxEnrich == 2

\* A bootstrap with no current event.
BootC ==
  [teams |-> <<ARS, CHE, LEE>>,
   events |-> <<Event(1, FALSE)>>,
   elements |-> <<>>]
EnrichBootstraps == {BootA, BootB, BootC}

EnrichFixtures ==
  {Fx(1, 2, 1, TRUE, 2, 0, 3, 4),
   Fx(2, 3, 2, FALSE, Null, Null, 2, 5),
   Fx(3, 1, 3, FALSE, Null, Null, 4, 1),
   Fx(1, 2, Null, FALSE, Null, Null, 3, 3),
   Fx(2, 1, 7, FALSE, Null, Null, 5, 2)}

\* req.query.weeks after parseInt: absent, 0, 1, 2.
EnrichQueries == {Null, 0, 1, 2}

EnrichRefresh(f, bootstrap, query) ==
  /\ Len(fixturesData) < MaxEnrich
  /\ Becomes(1, ServeFresh(Shared, bootstrap, Append(fixturesData, f), query, now))

EnrichNext ==
  \E f \in EnrichFixtures, bootstrap \in EnrichBootstraps, query \in EnrichQueries :
    EnrichRefresh(f, bootstrap, query)

EnrichSpec == Init /\ [][EnrichNext]_vars

\* The fixtures C10 has enriched: those with an event in [g, g + w).
C10_Upcoming(g, w) ==
  {j \in 1..Len(fixturesData) :
     /\ fixturesData[j].event # Null
     /\ g <= fixturesData[j].event
     /\ fixturesData[j].event < g + w}

\* C10: with g the current gameweek of the bootstrap (1 without one) and w the
\* weeks asked for, the response has exactly two rows per fixture with event in
\* [g, g + w), in list order: the home team's (isHome, home difficulty, away
\* team as opponent) then the away team's; no row for another fixture; and a
\* participant teamsById does not know is shown as '?' with an empty badge.
C10_TwoRowsPerUpcomingFixture ==
  AnsweredOk(1, "fixtures") =>
    LET g == reqs[1].resp.currentGW
        w == reqs[1].weeks
        rows == reqs[1].resp.fixtures
        up == C10_Upcoming(g, w)
        Name(id) == IF id \in DOMAIN teamsById THEN teamsById[id].short_name ELSE "?"
    IN /\ \/ \E i \in 1..Len(stored[BOOTSTRAP].value.events) :
               /\ stored[BOOTSTRAP].value.events[i].is_current
               /\ stored[BOOTSTRAP].value.events[i].id = g
          \/ /\ g = 1
             /\ \A i \in 1..Len(stored[BOOTSTRAP].value.events) :
                  ~stored[BOOTSTRAP].value.events[i].is_current
       /\ Len(rows) = 2 * Cardinality(up)
       /\ \A j \in up :
            LET k == Cardinality({i \in up : i <= j})
                f == fixturesData[j]
                home == rows[2 * k - 1]
                away == rows[2 * k]
            IN /\ home.teamId = f.team_h /\ home.isHome /\ home.gw = f.event
               /\ home.fdr = f.team_h_difficulty /\ home.opp = Name(f.team_a)
               /\ f.team_a \notin DOMAIN teamsById => home.oppBadge = NoBadge
               /\ away.teamId = f.team_a /\ ~away.isHome /\ away.gw = f.event
               /\ away.fdr = f.team_a_difficulty /\ away.opp = Name(f.team_h)
               /\ f.team_h \notin DOMAIN teamsById => away.oppBadge = NoBadge

\* C10 witness: a response with the two rows of one fixture, one of them with
\* an unknown opponent, and none for a fixture without event.
C10_Witness ==
  /\ AnsweredOk(1, "fixtures")
  /\ Len(reqs[1].resp.fixtures) = 2
  /\ \E i \in 1..2 : /\ reqs[1].resp.fixtures[i].opp = "?"
                     /\ reqs[1].resp.fixtures[i].oppBadge = NoBadge
  /\ \E j \in 1..Len(fixturesData) : fixturesData[j].event = Null

--------------------------------------------------------------------------
(* The squad builder of one page: the page loads its bootstrap once (line  *)
(* 353) and addPlayer and removePlayer are called in any order, before or  *)
(* after the answer.                                                       *)

\* The ids the calls are made with: 1..MaxPlayerId.
MaxPlayerId == 4

\* A bootstrap whose players cost nothing, more than half the budget, and the
\* rest of it.
SquadBoot ==
  [teams |-> <<ARS, CHE>>,
   events |-> <<Event(1, TRUE)>>,
   elements |-> <<Player(1, "Saka", 1, 3, 10, "a", 0),
                  Player(2, "Palmer", 2, 3, 12, "a", 600),
                  Player(3, "Rice", 1, 3, 9, "a", 400)>>]

\* /api/bootstrap served at time t with both upstream fetches answered at once:
\* line 93 stores the bootstrap, loadData stores the fixtures and runs lines
\* 44-72, and the route answers (lines 95-106).
ServeBootstrap(sh, bootstrap, fixtures, t) ==
  LET q == [IdleReq EXCEPT !.route = "bootstrap", !.data = bootstrap]
      fetched == Store(Store(sh, BOOTSTRAP, bootstrap, t), FIXTURES, fixtures, t)
  IN AfterLoadData(LoadDataBody(fetched, bootstrap, fixtures, t), q, t)

\* loadBootstrap (lines 179-183): bootstrap = await res.json().
LoadBootstrap(data, fixtures) ==
  /\ clientBootstrap = NoResp
  /\ reqs[1].pc = "idle"
  /\ LET res == ServeBootstrap(Shared, data, fixtures, now) IN
       /\ Served(1, res)
       /\ clientBootstrap' = res.q.resp
  /\ UNCHANGED <<squad, bank, call>>

\* loadBootstrap when the server's upstream fetch fails: the 503 body of line 109.
LoadBootstrapFailed ==
  /\ clientBootstrap = NoResp
  /\ reqs[1].pc = "idle"
  /\ LET q == [IdleReq EXCEPT !.route = "bootstrap"]
         res == Throw(Shared, BootstrapRoute(Shared, q, now).q) IN
       /\ Served(1, res)
       /\ clientBootstrap' = res.q.resp
  /\ UNCHANGED <<squad, bank, call>>

\* A call of addPlayer(id).
ClickAdd(id) ==
  /\ LET res == AddPlayer(clientBootstrap, squad, bank, id) IN
       /\ squad' = res.squad
       /\ bank' = res.bank
  /\ call' = [fn |-> "addPlayer", id |-> id, bootstrap |-> clientBootstrap,
              squad |-> squad, bank |-> bank]
  /\ UNCHANGED <<now, cache, stored, teamsById, teamStats, fixturesData, reqs>>
  /\ UNCHANGED clientBootstrap

\* A call of removePlayer(id).
ClickRemove(id) ==
  /\ LET res == RemovePlayer(squad, bank, id) IN
       /\ squad' = res.squad
       /\ bank' = res.bank
  /\ call' = [fn |-> "removePlayer", id |-> id, bootstrap |-> clientBootstrap,
              squad |-> squad, bank |-> bank]
  /\ UNCHANGED <<now, cache, stored, teamsById, teamStats, fixturesData, reqs>>
  /\ UNCHANGED clientBootstrap

SquadNext ==
  \/ LoadBootstrap(SquadBoot, FxA)
  \/ LoadBootstrapFailed
  \/ \E id \in 1..MaxPlayerId : ClickAdd(id)
  \/ \E id \in 1..MaxPlayerId : ClickRemove(id)

SquadSpec == Init /\ [][SquadNext]_vars

RECURSIVE SumCosts(_)
\* The sum of the costs of the entries of a squad.
SumCosts(s) == IF s = <<>> THEN 0 ELSE s[1].cost + SumCosts(Tail(s))

\* The player a call's id names in the bootstrap the call saw, if any.
C11_Known(c) ==
  /\ "players" \in DOMAIN c.bootstrap
  /\ \E i \in 1..Len(c.bootstrap.players) : c.bootstrap.players[i].id = c.id

\* An addPlayer call the claim says is rejected: unknown id, squad already 15,
\* or cost above the bank.
C11_AddRejected(c) ==
  \/ ~C11_Known(c)
  \/ Len(c.squad) >= 15
  \/ \E i \in 1..Len(c.bootstrap.players) :
       /\ c.bootstrap.players[i].id = c.id
       /\ c.bootstrap.players[i].cost > c.bank

\* C11: after any sequence of addPlayer and removePlayer calls from an empty
\* squad and a bank of 1000, with costs that are not negative, bank plus the
\* costs of the squad's entries is 1000, bank is not negative and the squad has
\* at most 15 entries; a rejected addPlayer call (unknown id, squad of 15, cost
\* above bank) and a removePlayer call of an id not in the squad leave squad
\* and bank as they were.
C11_SquadBudget ==
  /\ bank + SumCosts(squad) = 1000
  /\ bank >= 0
  /\ Len(squad) <= 15
  /\ call.fn = "addPlayer" /\ C11_AddRejected(call) =>
       squad = call.squad /\ bank = call.bank
  /\ call.fn = "removePlayer"
       /\ (\A i \in 1..Len(call.squad) : call.squad[i].id # call.id) =>
       squad = call.squad /\ bank = call.bank

\* C11 witness: the squad is full and the bank spent on two of its entries, the
\* others being one player added again and again, and the latest call,
\* addPlayer of that known player, who costs nothing, was turned down.
C11_Witness ==
  /\ Len(squad) = 15
  /\ bank = 0
  /\ \E i, j \in 1..15 : squad[i].id = 2 /\ squad[j].id = 3
  /\ call.fn = "addPlayer"
  /\ call.id = 1
  /\ call.squad = squad

====
